---- MODULE Spec2Model ----
(***************************************************************************)
(* bq_emission.py: calculate_emissions_from_bq and the two fuel property   *)
(* lookups it uses.                                                        *)
(*                                                                         *)
(* Python strings are sequences of character codes (ASCII), so that        *)
(* lower(), strip(), split(), sorted() and the `in` substring test are     *)
(* computed on characters.  Python floats are exact rationals, NaN is a    *)
(* value of its own.  Sequences are indexed from 1 (Python from 0).        *)
(***************************************************************************)
EXTENDS Integers, Sequences, FiniteSets

(***************************************************************************)
(* Python values held by the data frames and the locals.                   *)
(***************************************************************************)
RECURSIVE gcd(_, _)
gcd(a, b) == IF b = 0 THEN a ELSE gcd(b, a % b)

abs(n) == IF n < 0 THEN -n ELSE n

\* a float with the value n/d (d > 0), in lowest terms
Num(n, d) ==
    LET g == gcd(abs(n), d)
    IN  [t |-> "num", num |-> n \div g, den |-> d \div g]

NaN == [t |-> "nan"]

None == [t |-> "none"]

\* a str object whose characters are s
Str(s) == [t |-> "str", s |-> s]

\* a local name no statement has assigned yet
Unbound == [t |-> "unbound"]

IsNum(v) == v.t = "num"

Mul(a, b) ==
    IF a.t = "nan" \/ b.t = "nan" THEN NaN ELSE Num(a.num * b.num, a.den * b.den)

\* a / b for b # 0
Div(a, b) ==
    IF a.t = "nan" \/ b.t = "nan" THEN NaN
    ELSE IF b.num < 0 THEN Num(-(a.num * b.den), a.den * (-b.num))
    ELSE Num(a.num * b.den, a.den * b.num)

\* a <= b on floats that are numbers
Leq(a, b) == a.num * b.den <= b.num * a.den

Less(a, b) == a.num * b.den < b.num * a.den

(***************************************************************************)
(* str methods.                                                            *)
(***************************************************************************)
\* the characters str.strip() and str.split() treat as whitespace
Whitespace == {9, 10, 11, 12, 13, 32}

IsDigit(c) == c \in 48..57

lower_char(c) == IF c \in 65..90 THEN c + 32 ELSE c

lower(s) == [i \in 1..Len(s) |-> lower_char(s[i])]

RECURSIVE lstrip(_)
lstrip(s) ==
    IF s # <<>> /\ Head(s) \in Whitespace THEN lstrip(Tail(s)) ELSE s

RECURSIVE rstrip(_)
rstrip(s) ==
    IF s # <<>> /\ s[Len(s)] \in Whitespace THEN rstrip(SubSeq(s, 1, Len(s) - 1)) ELSE s

strip(s) == lstrip(rstrip(s))

\* Python's `k in t` on strings
contains(t, k) ==
    \E i \in 0..(Len(t) - Len(k)) : SubSeq(t, i + 1, i + Len(k)) = k

\* str.split(): the maximal runs of non-whitespace characters, in order
RECURSIVE split_from(_, _, _)
split_from(s, cur, acc) ==
    IF s = <<>> THEN (IF cur = <<>> THEN acc ELSE Append(acc, cur))
    ELSE IF Head(s) \in Whitespace
         THEN split_from(Tail(s), <<>>, IF cur = <<>> THEN acc ELSE Append(acc, cur))
         ELSE split_from(Tail(s), Append(cur, Head(s)), acc)

split(s) == split_from(s, <<>>, <<>>)

\* a < b in Python's string order (code points, a proper prefix first)
RECURSIVE str_less(_, _)
str_less(a, b) ==
    IF b = <<>> THEN FALSE
    ELSE IF a = <<>> THEN TRUE
    ELSE IF Head(a) # Head(b) THEN Head(a) < Head(b)
    ELSE str_less(Tail(a), Tail(b))

\* sorted(): a stable insertion of each token into the sorted prefix
RECURSIVE insert_sorted(_, _)
insert_sorted(tok, ss) ==
    IF ss = <<>> THEN <<tok>>
    ELSE IF str_less(tok, Head(ss)) THEN <<tok>> \o ss
    ELSE <<Head(ss)>> \o insert_sorted(tok, Tail(ss))

RECURSIVE sorted(_)
sorted(ts) ==
    IF ts = <<>> THEN <<>>
    ELSE insert_sorted(ts[Len(ts)], sorted(SubSeq(ts, 1, Len(ts) - 1)))

\* " ".join(ts)
RECURSIVE join(_)
join(ts) ==
    IF ts = <<>> THEN <<>>
    ELSE IF Len(ts) = 1 THEN ts[1]
    ELSE ts[1] \o <<32>> \o join(Tail(ts))

(***************************************************************************)
(* float(v): numbers and NaN convert, a str converts when it is an         *)
(* unsigned decimal integer literal with optional surrounding whitespace   *)
(* (the only numeric literals the inputs below use); every other str       *)
(* raises ValueError and None raises TypeError.                            *)
(***************************************************************************)
RECURSIVE digits_value(_, _)
digits_value(s, acc) ==
    IF s = <<>> THEN acc ELSE digits_value(Tail(s), 10 * acc + (Head(s) - 48))

is_literal(s) ==
    LET u == strip(s) IN u # <<>> /\ \A i \in 1..Len(u) : IsDigit(u[i])

float_raises(v) ==
    \/ v.t = "none"
    \/ v.t = "str" /\ ~is_literal(v.s)

float(v) ==
    IF v.t = "str" THEN Num(digits_value(strip(v.s), 0), 1) ELSE v

\* `if x:` on a lookup result: None and 0.0 are false
truthy(v) == v.t = "nan" \/ (v.t = "num" /\ v.num # 0)

\* the value shown by the format spec :.3f (round to thousandths)
fmt3f(v) ==
    IF v.t # "num" THEN v
    ELSE LET m == 2 * 1000 * abs(v.num) + v.den
             r == m \div (2 * v.den)
         IN  Num(IF v.num < 0 THEN -r ELSE r, 1000)


(***************************************************************************)
(* The fuel property tables, in the order the dict literals declare them   *)
(* (dict iteration is insertion order).  A coefficient is the pair <<n, d>>  *)
(* of its decimal literal n/d.                                             *)
(***************************************************************************)
\* densities, kg/liter
DENSITY_MAP ==
    <<
    [fuel |-> <<100, 105, 101, 115, 101, 108, 32, 102, 117, 101, 108>>, density |-> <<832, 1000>>],  \* 'diesel fuel'
    [fuel |-> <<112, 101, 116, 114, 111, 108>>, density |-> <<74, 100>>],  \* 'petrol'
    [fuel |-> <<107, 101, 114, 111, 115, 101, 110, 101>>, density |-> <<81, 100>>],  \* 'kerosene'
    [fuel |-> <<106, 101, 116, 32, 102, 117, 101, 108>>, density |-> <<8, 10>>],  \* 'jet fuel'
    [fuel |-> <<104, 101, 97, 116, 105, 110, 103, 32, 111, 105, 108>>, density |-> <<85, 100>>],  \* 'heating oil'
    [fuel |-> <<98, 105, 111, 100, 105, 101, 115, 101, 108>>, density |-> <<88, 100>>],  \* 'biodiesel'
    [fuel |-> <<101, 116, 104, 97, 110, 111, 108>>, density |-> <<789, 1000>>],  \* 'ethanol'
    [fuel |-> <<97, 118, 105, 97, 116, 105, 111, 110, 32, 103, 97, 115, 111, 108, 105, 110, 101>>, density |-> <<72, 100>>],  \* 'aviation gasoline'
    [fuel |-> <<109, 97, 114, 105, 110, 101, 32, 100, 105, 101, 115, 101, 108>>, density |-> <<86, 100>>],  \* 'marine diesel'
    [fuel |-> <<104, 101, 97, 118, 121, 32, 102, 117, 101, 108, 32, 111, 105, 108>>, density |-> <<96, 100>>],  \* 'heavy fuel oil'
    [fuel |-> <<119, 97, 115, 116, 101, 32, 111, 105, 108>>, density |-> <<92, 100>>],  \* 'waste oil'
    [fuel |-> <<115, 104, 97, 108, 101, 32, 111, 105, 108>>, density |-> <<85, 100>>],  \* 'shale oil'
    [fuel |-> <<110, 97, 112, 104, 116, 104, 97>>, density |-> <<7, 10>>],  \* 'naphtha'
    [fuel |-> <<109, 101, 116, 104, 97, 110, 111, 108>>, density |-> <<792, 1000>>],  \* 'methanol'
    [fuel |-> <<108, 112, 103>>, density |-> <<54, 100>>],  \* 'lpg'
    [fuel |-> <<112, 114, 111, 112, 97, 110, 101>>, density |-> <<493, 1000>>],  \* 'propane'
    [fuel |-> <<98, 117, 116, 97, 110, 101>>, density |-> <<573, 1000>>]  \* 'butane'
    >>

\* heating values, kWh/kg
HEATING_VALUE_MAP ==
    <<
    [fuel |-> <<100, 105, 101, 115, 101, 108, 32, 102, 117, 101, 108>>, hv |-> <<118, 10>>],  \* 'diesel fuel'
    [fuel |-> <<112, 101, 116, 114, 111, 108>>, hv |-> <<120, 10>>],  \* 'petrol'
    [fuel |-> <<107, 101, 114, 111, 115, 101, 110, 101>>, hv |-> <<118, 10>>],  \* 'kerosene'
    [fuel |-> <<106, 101, 116, 32, 102, 117, 101, 108>>, hv |-> <<119, 10>>],  \* 'jet fuel'
    [fuel |-> <<104, 101, 97, 116, 105, 110, 103, 32, 111, 105, 108>>, hv |-> <<118, 10>>],  \* 'heating oil'
    [fuel |-> <<98, 105, 111, 100, 105, 101, 115, 101, 108>>, hv |-> <<92, 10>>],  \* 'biodiesel'
    [fuel |-> <<101, 116, 104, 97, 110, 111, 108>>, hv |-> <<75, 10>>],  \* 'ethanol'
    [fuel |-> <<97, 118, 105, 97, 116, 105, 111, 110, 32, 103, 97, 115, 111, 108, 105, 110, 101>>, hv |-> <<120, 10>>],  \* 'aviation gasoline'
    [fuel |-> <<109, 97, 114, 105, 110, 101, 32, 100, 105, 101, 115, 101, 108>>, hv |-> <<118, 10>>],  \* 'marine diesel'
    [fuel |-> <<104, 101, 97, 118, 121, 32, 102, 117, 101, 108, 32, 111, 105, 108>>, hv |-> <<116, 10>>],  \* 'heavy fuel oil'
    [fuel |-> <<119, 97, 115, 116, 101, 32, 111, 105, 108>>, hv |-> <<110, 10>>],  \* 'waste oil'
    [fuel |-> <<115, 104, 97, 108, 101, 32, 111, 105, 108>>, hv |-> <<95, 10>>],  \* 'shale oil'
    [fuel |-> <<110, 97, 112, 104, 116, 104, 97>>, hv |-> <<113, 10>>],  \* 'naphtha'
    [fuel |-> <<109, 101, 116, 104, 97, 110, 111, 108>>, hv |-> <<55, 10>>],  \* 'methanol'
    [fuel |-> <<108, 112, 103>>, hv |-> <<138, 10>>],  \* 'lpg'
    [fuel |-> <<110, 97, 116, 117, 114, 97, 108, 32, 103, 97, 115>>, hv |-> <<131, 10>>],  \* 'natural gas'
    [fuel |-> <<112, 114, 111, 112, 97, 110, 101>>, hv |-> <<138, 10>>],  \* 'propane'
    [fuel |-> <<98, 117, 116, 97, 110, 101>>, hv |-> <<137, 10>>],  \* 'butane'
    [fuel |-> <<119, 111, 111, 100>>, hv |-> <<42, 10>>],  \* 'wood'
    [fuel |-> <<99, 104, 97, 114, 99, 111, 97, 108>>, hv |-> <<75, 10>>],  \* 'charcoal'
    [fuel |-> <<99, 111, 97, 108>>, hv |-> <<70, 10>>],  \* 'coal'
    [fuel |-> <<97, 110, 116, 104, 114, 97, 99, 105, 116, 101>>, hv |-> <<80, 10>>],  \* 'anthracite'
    [fuel |-> <<108, 105, 103, 110, 105, 116, 101>>, hv |-> <<35, 10>>],  \* 'lignite'
    [fuel |-> <<112, 101, 97, 116>>, hv |-> <<38, 10>>],  \* 'peat'
    [fuel |-> <<98, 105, 111, 109, 97, 115, 115>>, hv |-> <<40, 10>>],  \* 'biomass'
    [fuel |-> <<109, 117, 110, 105, 99, 105, 112, 97, 108, 32, 119, 97, 115, 116, 101>>, hv |-> <<25, 10>>],  \* 'municipal waste'
    [fuel |-> <<98, 97, 103, 97, 115, 115, 101>>, hv |-> <<22, 10>>],  \* 'bagasse'
    [fuel |-> <<97, 110, 105, 109, 97, 108, 32, 102, 97, 116>>, hv |-> <<95, 10>>],  \* 'animal fat'
    [fuel |-> <<116, 97, 108, 108, 111, 119>>, hv |-> <<95, 10>>],  \* 'tallow'
    [fuel |-> <<114, 101, 102, 105, 110, 101, 114, 121, 32, 103, 97, 115>>, hv |-> <<131, 10>>],  \* 'refinery gas'
    [fuel |-> <<116, 111, 119, 110, 32, 103, 97, 115>>, hv |-> <<50, 10>>],  \* 'town gas'
    [fuel |-> <<115, 101, 119, 97, 103, 101, 32, 103, 97, 115>>, hv |-> <<55, 10>>],  \* 'sewage gas'
    [fuel |-> <<108, 97, 110, 100, 102, 105, 108, 108, 32, 103, 97, 115>>, hv |-> <<50, 10>>],  \* 'landfill gas'
    [fuel |-> <<98, 108, 97, 99, 107, 32, 108, 105, 113, 117, 111, 114>>, hv |-> <<25, 10>>],  \* 'black liquor'
    [fuel |-> <<115, 108, 117, 100, 103, 101, 32, 103, 97, 115>>, hv |-> <<50, 10>>],  \* 'sludge gas'
    [fuel |-> <<112, 101, 116, 114, 111, 108, 101, 117, 109, 32, 99, 111, 107, 101>>, hv |-> <<82, 10>>],  \* 'petroleum coke'
    [fuel |-> <<115, 117, 98, 45, 98, 105, 116, 117, 109, 105, 110, 111, 117, 115, 32, 99, 111, 97, 108>>, hv |-> <<60, 10>>],  \* 'sub-bituminous coal'
    [fuel |-> <<98, 114, 111, 119, 110, 32, 99, 111, 97, 108>>, hv |-> <<35, 10>>],  \* 'brown coal'
    [fuel |-> <<111, 105, 108, 32, 115, 104, 97, 108, 101>>, hv |-> <<70, 10>>],  \* 'oil shale'
    [fuel |-> <<115, 121, 110, 103, 97, 115>>, hv |-> <<40, 10>>]  \* 'syngas'
    >>


(***************************************************************************)
(* get_density and get_heating_value: the first entry, in table order,     *)
(* whose key occurs in the lowercased, stripped source.                    *)
(***************************************************************************)
not_found == [value |-> None, fuel |-> None]

found_entry(fuel, coefficient) ==
    [value |-> Num(coefficient[1], coefficient[2]), fuel |-> Str(fuel)]

\* the key without .lower()
source_key_cased(source) == strip(source)

\* source_key = source.lower().strip()
source_key_of(source) == strip(lower(source))

RECURSIVE density_from(_, _)
density_from(source_key, i) ==
    IF i > Len(DENSITY_MAP) THEN not_found
    ELSE IF contains(source_key, DENSITY_MAP[i].fuel)
         THEN found_entry(DENSITY_MAP[i].fuel, DENSITY_MAP[i].density)
         ELSE density_from(source_key, i + 1)

get_density(source) == density_from(source_key_of(source), 1)

RECURSIVE heating_value_from(_, _)
heating_value_from(source_key, i) ==
    IF i > Len(HEATING_VALUE_MAP) THEN not_found
    ELSE IF contains(source_key, HEATING_VALUE_MAP[i].fuel)
         THEN found_entry(HEATING_VALUE_MAP[i].fuel, HEATING_VALUE_MAP[i].hv)
         ELSE heating_value_from(source_key, i + 1)

get_heating_value(source) == heating_value_from(source_key_of(source), 1)


(***************************************************************************)
(* rapidfuzz, as called at the fuzzy match: process.extractOne(query,      *)
(* choices, scorer=fuzz.token_sort_ratio) with no processor and no score   *)
(* cutoff.  The library is not part of the repository; it is modelled from *)
(* its documented behaviour: token_sort_ratio sorts the whitespace-split   *)
(* tokens of both strings, joins them with one space and returns the       *)
(* normalized Indel similarity 100 * 2*LCS / (len1 + len2) (100 for two    *)
(* empty strings); extractOne scans the choices in order, keeps a choice   *)
(* only when it scores strictly higher than the best so far, stops at a    *)
(* score of 100, and returns None when there is no choice.                 *)
(***************************************************************************)
max(a, b) == IF a < b THEN b ELSE a

\* one row of the longest-common-subsequence table: cur[j + 1] = LCS(a[1..i], b[1..j])
RECURSIVE lcs_row(_, _, _, _, _)
lcs_row(prev, c, b, j, cur) ==
    IF j > Len(b) THEN cur
    ELSE LET next == Append(cur, IF c = b[j] THEN prev[j] + 1
                                 ELSE max(prev[j + 1], cur[j]))
         IN  \* (the test makes the cell a value before the next column reads it)
             IF Len(next) = j + 1 THEN lcs_row(prev, c, b, j + 1, next) ELSE next

RECURSIVE lcs_rows(_, _, _, _)
lcs_rows(a, b, i, prev) ==
    IF i > Len(a) THEN prev[Len(b) + 1]
    ELSE LET row == lcs_row(prev, a[i], b, 1, <<0>>)
         IN  IF Len(row) = Len(b) + 1 THEN lcs_rows(a, b, i + 1, row) ELSE 0

lcs(a, b) == lcs_rows(a, b, 1, [j \in 1..(Len(b) + 1) |-> 0])

ratio(a, b) ==
    IF Len(a) + Len(b) = 0 THEN Num(100, 1)
    ELSE Num(200 * lcs(a, b), Len(a) + Len(b))

token_sort_ratio(s1, s2) == ratio(join(sorted(split(s1))), join(sorted(split(s2))))

\* a later choice with the same score replacing the best so far
takes_over_on_tie(best, score) == Leq(best, score)

\* whether a choice scoring `score` replaces the best so far
takes_over(best, score) == Less(best, score)

RECURSIVE extract_from(_, _, _, _)
extract_from(query, choices, i, result) ==
    IF i > Len(choices) THEN result
    ELSE LET score == token_sort_ratio(query, choices[i])
             kept  == IF result = None \/ takes_over(result.score, score)
                      THEN [match |-> choices[i], score |-> score, match_idx |-> i]
                      ELSE result
         IN  IF score = Num(100, 1) THEN kept
             ELSE extract_from(query, choices, i + 1, kept)

extractOne(query, choices) == extract_from(query, choices, 1, None)


(***************************************************************************)
(* calculate_emissions_from_bq.  db_df and input_df are the frames         *)
(* read_gbq and read_csv returned; idx is the row the loop is at; locals   *)
(* holds the names the loop body assigns (a name keeps its value from the  *)
(* previous iteration until it is assigned again).                         *)
(***************************************************************************)
VARIABLES db_df, input_df, pc, idx, locals, output_rows, output_df

vars == <<db_df, input_df, pc, idx, locals, output_rows, output_df>>

\* str(v)
str(v) ==
    IF v.t = "str" THEN v.s
    ELSE IF v.t = "nan" THEN <<110, 97, 110>>  \* 'nan'
    ELSE <<78, 111, 110, 101>>  \* 'None'

\* the unit without .lower()
unit_cased(v) == strip(str(v))

\* str(cell).lower().strip()

unit_of(v) == strip(lower(str(v)))

liter == <<108, 105, 116, 101, 114>>  \* 'liter'

kg == <<107, 103>>  \* 'kg'

kwh == <<107, 119, 104>>  \* 'kwh'

\* the note of the previous record kept (note = '' once, before the loop)
start_of_keeping_note(l) ==
    [l EXCEPT !.note = IF l.total_emission = Unbound THEN <<>> ELSE l.note,
              !.norm_quantity = l.input_quantity,
              !.norm_unit = l.input_unit]

\* note = ''; norm_quantity = input_quantity; norm_unit = input_unit
start_of(l) ==
    [l EXCEPT !.note = <<>>,
              !.norm_quantity = l.input_quantity,
              !.norm_unit = l.input_unit]

\* density, fuel = get_density(...) / hv, fuel = get_heating_value(...)
bind(s, name, r) == [s EXCEPT ![name] = r.value, !.fuel = r.fuel]

\* a branch that converted but left norm_unit as it was
converted_unit_kept(s, nq, from, to, using, r) ==
    [raised |-> FALSE,
     l |-> [s EXCEPT !.norm_quantity = nq,
                     !.note = <<[kind |-> "Converted",
                                 quantity |-> s.input_quantity,
                                 from |-> from,
                                 shown |-> fmt3f(nq),
                                 to |-> to,
                                 using |-> using,
                                 coefficient |-> r.value,
                                 fuel |-> r.fuel]>>]]

\* a branch that converted: the new quantity and unit, and the "Converted ..." note
converted(s, nq, from, to, using, r) ==
    [raised |-> FALSE,
     l |-> [s EXCEPT !.norm_quantity = nq,
                     !.norm_unit = to,
                     !.note = <<[kind |-> "Converted",
                                 quantity |-> s.input_quantity,
                                 from |-> from,
                                 shown |-> fmt3f(nq),
                                 to |-> to,
                                 using |-> using,
                                 coefficient |-> r.value,
                                 fuel |-> r.fuel]>>]]

\* a failed lookup that leaves no note
lookup_failed_silent(s, what, from, to) == [raised |-> FALSE, l |-> s]

\* a branch whose lookup found nothing: the "No ... found" note
lookup_failed(s, what, from, to) ==
    [raised |-> FALSE,
     l |-> [s EXCEPT !.note = <<[kind |-> what, from |-> from, to |-> to,
                                 source |-> s.input_source]>>]]

\* float(input_quantity) raised inside a branch: nothing after it is assigned
raised_in_branch(s) == [raised |-> TRUE, l |-> s]

liter_to_kg_quantity(q, density) == Mul(q, density)

kwh_to_kg_quantity(q, hv) == Div(q, hv)

kg_to_kwh_quantity(q, hv) == Mul(q, hv)

\* elif input_unit == 'liter' and emission_unit == 'kg'
liter_to_kg(s, r) ==
    IF ~truthy(r.value) THEN lookup_failed(s, "No density found", liter, kg)
    ELSE IF float_raises(s.input_quantity) THEN raised_in_branch(s)
    ELSE converted(s, liter_to_kg_quantity(float(s.input_quantity), r.value),
                   liter, kg, "density", r)

\* elif input_unit == 'kwh' and emission_unit == 'kg'
kwh_to_kg(s, r) ==
    IF ~truthy(r.value) THEN lookup_failed(s, "No heating value found", kwh, kg)
    ELSE IF float_raises(s.input_quantity) THEN raised_in_branch(s)
    ELSE converted(s, kwh_to_kg_quantity(float(s.input_quantity), r.value),
                   kwh, kg, "heating value", r)

\* elif input_unit == 'kg' and emission_unit == 'kwh'
kg_to_kwh(s, r) ==
    IF ~truthy(r.value) THEN lookup_failed(s, "No heating value found", kg, kwh)
    ELSE IF float_raises(s.input_quantity) THEN raised_in_branch(s)
    ELSE converted(s, kg_to_kwh_quantity(float(s.input_quantity), r.value),
                   kg, kwh, "heating value", r)

\* else: no rule for the pair
unit_mismatch(s) ==
    [raised |-> FALSE,
     l |-> [s EXCEPT !.note = <<[kind |-> "Unit mismatch",
                                 input |-> s.input_unit,
                                 factor |-> s.emission_unit]>>]]

liter_to_kg_looked_up(s, r) == liter_to_kg(bind(s, "density", r), r)

kwh_to_kg_looked_up(s, r) == kwh_to_kg(bind(s, "hv", r), r)

kg_to_kwh_looked_up(s, r) == kg_to_kwh(bind(s, "hv", r), r)

\* the lookups given the matched product's name
lookup_text_matched(s) == str(s.matched_product)

\* the text the property lookups are given: input_source
lookup_text(s) == s.input_source

\* "Handle unit conversion": the if/elif chain, entered with the locals s.
\* raised tells that float(input_quantity) raised inside a conversion branch.
convert_chain(s) ==
    IF s.input_unit = s.emission_unit THEN [raised |-> FALSE, l |-> s]
    ELSE IF s.input_unit = liter /\ s.emission_unit = kg
         THEN liter_to_kg_looked_up(s, get_density(lookup_text(s)))
    ELSE IF s.input_unit = kwh /\ s.emission_unit = kg
         THEN kwh_to_kg_looked_up(s, get_heating_value(lookup_text(s)))
    ELSE IF s.input_unit = kg /\ s.emission_unit = kwh
         THEN kg_to_kwh_looked_up(s, get_heating_value(lookup_text(s)))
    ELSE unit_mismatch(s)

convert(l) == convert_chain(start_of(l))

calculation_error(l, operand) ==
    [l EXCEPT !.total_emission = None,
              !.note = l.note \o <<[kind |-> "Calculation error", e |-> operand]>>]

\* "Calculate emission": the try/except around the product
calculate(l) ==
    IF float_raises(l.norm_quantity) THEN calculation_error(l, l.norm_quantity)
    ELSE IF float_raises(l.emission_factor) THEN calculation_error(l, l.emission_factor)
    ELSE [l EXCEPT !.total_emission = Mul(float(l.norm_quantity), float(l.emission_factor))]

\* the dict appended to output_rows
output_row(l) ==
    [source |-> l.input_source,
     matched_product |-> l.matched_product,
     quantity |-> l.input_quantity,
     unit |-> l.input_unit,
     emission_factor |-> l.emission_factor,
     emission_factor_unit |-> l.emission_unit,
     total_co2_emission |-> l.total_emission,
     note |-> l.note,
     match_score |-> l.score]

\* input_source, input_quantity, input_unit = ... of the row
read_row(l, input_row) ==
    [l EXCEPT !.input_source = str(input_row.source),
              !.input_quantity = input_row.quantity,
              !.input_unit = unit_of(input_row.unit)]

\* choices = db_df['product'].astype(str).tolist()
choices_of(db) == [i \in 1..Len(db) |-> str(db[i].product)]

\* the locals assigned from the match and the matched row
read_match(l, found, matched_row) ==
    [l EXCEPT !.score = found.score,
              !.match_idx = found.match_idx,
              !.emission_factor = matched_row.emission_factor,
              !.emission_unit = unit_of(matched_row.unit),
              !.matched_product = matched_row.product]

after_convert(c) ==
    IF c.raised THEN [outcome |-> "ValueError", l |-> c.l]
    ELSE [outcome |-> "ok", l |-> calculate(c.l)]

\* unpacking None into match, score, match_idx raises TypeError
after_match(l, db, found) ==
    IF found = None THEN [outcome |-> "TypeError", l |-> l]
    ELSE after_convert(convert(read_match(l, found, db[found.match_idx])))

\* One pass of the loop body over input_row with the locals l on entry:
\* outcome "ok" (a row is appended), or the exception that leaves the function.
body(input_row, db, l) ==
    after_match(read_row(l, input_row), db,
                extractOne(str(input_row.source), choices_of(db)))

\* pd.DataFrame(rows): a column of floats and None becomes a float column,
\* where None is NaN; any other column keeps its objects.
is_float_column(rows, col) ==
    /\ \A i \in 1..Len(rows) : rows[i][col].t \in {"num", "nan", "none"}
    /\ \E i \in 1..Len(rows) : rows[i][col].t \in {"num", "nan"}

cell(rows, i, col) ==
    IF rows[i][col].t = "none" /\ is_float_column(rows, col) THEN NaN ELSE rows[i][col]

DataFrame(rows) ==
    [i \in 1..Len(rows) |->
        [rows[i] EXCEPT !.quantity = cell(rows, i, "quantity"),
                        !.emission_factor = cell(rows, i, "emission_factor"),
                        !.total_co2_emission = cell(rows, i, "total_co2_emission")]]


(***************************************************************************)
(* The inputs.  Reference rows are what the query returns (a NULL          *)
(* emission factor is None); input rows are what read_csv returns: a       *)
(* quantity column of numbers (an empty cell is NaN), or, when some cell   *)
(* is not a number, a column of str objects (an empty cell is still NaN).  *)
(***************************************************************************)
MaxRefs == 2

MaxRows == 2

ReferenceRows ==
    { [product |-> Str(<<68, 105, 101, 115, 101, 108, 32, 70, 117, 101, 108>>), emission_factor |-> Num(268, 100), unit |-> Str(<<107, 103>>)],  \* 'Diesel Fuel', 'kg'
      [product |-> Str(<<70, 117, 101, 108, 32, 68, 105, 101, 115, 101, 108>>), emission_factor |-> Num(25, 100), unit |-> Str(<<32, 107, 87, 104>>)],  \* 'Fuel Diesel', ' kWh'
      [product |-> Str(<<67, 111, 97, 108>>), emission_factor |-> None, unit |-> Str(<<71, 97, 108, 108, 111, 110, 32>>)] }  \* 'Coal', 'Gallon '

NumberRows ==
    { [source |-> Str(<<68, 105, 101, 115, 101, 108, 32, 70, 117, 101, 108, 32, 84, 121, 112, 101, 32, 65>>), quantity |-> Num(100, 1), unit |-> Str(<<108, 105, 116, 101, 114>>)],  \* 'Diesel Fuel Type A', 'liter'
      [source |-> Str(<<32, 32, 67, 79, 65, 76, 32>>), quantity |-> Num(50, 1), unit |-> Str(<<107, 87, 104>>)],  \* '  COAL ', 'kWh'
      [source |-> Str(<<115, 111, 108, 97, 114>>), quantity |-> Num(100, 1), unit |-> Str(<<76, 105, 116, 101, 114, 32>>)],  \* 'solar', 'Liter '
      [source |-> Str(<<70, 117, 101, 108, 32, 68, 105, 101, 115, 101, 108>>), quantity |-> Num(7, 2), unit |-> Str(<<32, 71, 65, 76, 76, 79, 78, 32>>)],  \* 'Fuel Diesel', ' GALLON '
      [source |-> Str(<<98, 105, 111, 100, 105, 101, 115, 101, 108, 32, 102, 117, 101, 108>>), quantity |-> Num(100, 1), unit |-> Str(<<75, 103>>)] }  \* 'biodiesel fuel', 'Kg'

ObjectRows ==
    { [source |-> Str(<<98, 105, 111, 100, 105, 101, 115, 101, 108, 32, 102, 117, 101, 108>>), quantity |-> Str(<<97, 98, 99>>), unit |-> Str(<<76, 105, 116, 101, 114>>)],  \* 'biodiesel fuel', 'abc', 'Liter'
      [source |-> Str(<<115, 111, 108, 97, 114>>), quantity |-> Str(<<49, 50>>), unit |-> Str(<<107, 119, 104>>)],  \* 'solar', '12', 'kwh'
      [source |-> Str(<<80, 114, 111, 112, 97, 110, 101>>), quantity |-> NaN, unit |-> Str(<<103, 97, 108, 108, 111, 110>>)] }  \* 'Propane', 'gallon'

SeqsUpTo(S, n) == UNION { [1..k -> S] : k \in 0..n }

\* read_csv leaves a quantity as a str only in a column that has a cell that is no number
InputFrames ==
    SeqsUpTo(NumberRows, MaxRows) \cup
    { f \in SeqsUpTo(ObjectRows, MaxRows) :
        \E i \in 1..Len(f) : f[i].quantity.t = "str" /\ ~is_literal(f[i].quantity.s) }

LocalNames ==
    {"input_source", "input_quantity", "input_unit", "score", "match_idx",
     "emission_factor", "emission_unit", "matched_product", "note",
     "norm_quantity", "norm_unit", "density", "hv", "fuel", "total_emission"}

\* on entry no local is assigned
unbound_locals == [n \in LocalNames |-> Unbound]

Init ==
    /\ db_df \in SeqsUpTo(ReferenceRows, MaxRefs)
    /\ input_df \in InputFrames
    /\ pc = "loop"
    /\ idx = 1
    /\ locals = unbound_locals
    /\ output_rows = <<>>
    /\ output_df = Unbound

appends(b) ==
    /\ b.outcome = "ok"
    /\ locals' = b.l
    /\ output_rows' = Append(output_rows, output_row(b.l))

raises(b) ==
    /\ b.outcome # "ok"
    /\ locals' = b.l

\* an iteration of `for idx, input_row in input_df.iterrows()` that reaches
\* output_rows.append
ProcessRow ==
    /\ pc = "loop"
    /\ idx <= Len(input_df)
    /\ appends(body(input_df[idx], db_df, locals))
    /\ idx' = idx + 1
    /\ UNCHANGED <<db_df, input_df, pc, output_df>>

\* an iteration that raises: the exception leaves the function, no frame is returned
RowRaises ==
    /\ pc = "loop"
    /\ idx <= Len(input_df)
    /\ raises(body(input_df[idx], db_df, locals))
    /\ pc' = "raised"
    /\ UNCHANGED <<db_df, input_df, idx, output_rows, output_df>>

\* the loop is exhausted: output_df = pd.DataFrame(output_rows); return output_df
Return ==
    /\ pc = "loop"
    /\ idx > Len(input_df)
    /\ output_df' = DataFrame(output_rows)
    /\ pc' = "returned"
    /\ UNCHANGED <<db_df, input_df, idx, locals, output_rows>>

Next == ProcessRow \/ RowRaises \/ Return

Spec == Init /\ [][Next]_vars


(***************************************************************************)
(* What the properties below speak about.                                  *)
(***************************************************************************)
\* the row the loop body last entered: the one that raised, else the one before idx
LastRow == IF pc = "raised" THEN idx ELSE idx - 1

\* the loop body has matched a reference row for the last row it entered
Matched == LastRow >= 1 /\ db_df # <<>>

\* a unit as the comparison sees it: trimmed and lowercased
norm_text(s) == lower(strip(s))

\* the table keys that occur in the trimmed, lowercased text, by position
hits(table, text) ==
    { i \in 1..Len(table) : contains(norm_text(text), table[i].fuel) }

first_of(S) == CHOOSE i \in S : \A j \in S : i <= j

row_failed_lookup(u, eu, text) ==
    \/ u = liter /\ eu = kg /\ hits(DENSITY_MAP, text) = {}
    \/ u = kwh /\ eu = kg /\ hits(HEATING_VALUE_MAP, text) = {}
    \/ u = kg /\ eu = kwh /\ hits(HEATING_VALUE_MAP, text) = {}

has_rule(u, eu) ==
    \/ u = liter /\ eu = kg
    \/ u = kwh /\ eu = kg
    \/ u = kg /\ eu = kwh

\* the record's lookup fails, or its unit pair has no conversion rule
degraded(u, eu, text) ==
    u # eu /\ (row_failed_lookup(u, eu, text) \/ ~has_rule(u, eu))

is_failure_note(n) ==
    n # <<>> /\ n[1].kind \in {"No density found", "No heating value found", "Unit mismatch"}

product_or_none(q, f) ==
    IF float_raises(q) \/ float_raises(f) THEN None ELSE Mul(float(q), float(f))

(***************************************************************************)
(* C1.  A record whose quantity or matched emission factor is not a valid  *)
(* number never makes the function raise, whatever the units: its row is   *)
(* appended with total_co2_emission None and the error at the end of note. *)
(***************************************************************************)
C1_CalculationErrorsNeverAbort ==
    /\ ~(pc = "raised" /\ db_df # <<>> /\ float_raises(input_df[idx].quantity))
    /\ \A i \in 1..Len(output_rows) :
          (float_raises(output_rows[i].quantity) \/ float_raises(output_rows[i].emission_factor))
          => /\ output_rows[i].total_co2_emission = None
             /\ output_rows[i].note # <<>>
             /\ output_rows[i].note[Len(output_rows[i].note)].kind = "Calculation error"

(***************************************************************************)
(* C2.  With an empty reference table the function raises for every input *)
(* frame, the frame with no rows included: it never returns a frame.       *)
(***************************************************************************)
C2_EmptyReferenceRaises ==
    (db_df = <<>> /\ pc # "loop") => pc = "raised"

(***************************************************************************)
(* C3, as claimed.  A record whose lookup fails or whose unit pair has no  *)
(* rule gets a non-empty note and total_co2_emission None.                 *)
(***************************************************************************)
C3_DegradedGivesNullTotal ==
    \A i \in 1..Len(output_rows) :
        degraded(output_rows[i].unit, output_rows[i].emission_factor_unit, output_rows[i].source)
        => /\ output_rows[i].note # <<>>
           /\ output_rows[i].total_co2_emission = None

(***************************************************************************)
(* C3, amended.  A record whose lookup fails or whose unit pair has no     *)
(* rule never raises; its row's note starts with the failure, and its      *)
(* total_co2_emission is the unconverted product input quantity times      *)
(* emission factor, None only when float() rejects one of the two.         *)
(***************************************************************************)
C3_DegradedGivesNoteAndUnconvertedTotal ==
    /\ \A i \in 1..Len(output_rows) :
          degraded(output_rows[i].unit, output_rows[i].emission_factor_unit, output_rows[i].source)
          => /\ is_failure_note(output_rows[i].note)
             /\ output_rows[i].total_co2_emission =
                   product_or_none(input_df[i].quantity, output_rows[i].emission_factor)
    /\ (pc = "raised" /\ db_df # <<>>)
          => ~degraded(locals.input_unit, locals.emission_unit, locals.input_source)

C3_Witness ==
    \E i \in 1..Len(output_rows) :
        /\ degraded(output_rows[i].unit, output_rows[i].emission_factor_unit, output_rows[i].source)
        /\ IsNum(output_rows[i].total_co2_emission)

(***************************************************************************)
(* C4.  With a non-empty reference table the function returns, for every   *)
(* input frame, one row per input row in input order.                      *)
(***************************************************************************)
C4_OneResultPerRecord ==
    (db_df # <<>> /\ pc # "loop")
    => /\ pc = "returned"
       /\ Len(output_df) = Len(input_df)
       /\ \A i \in 1..Len(input_df) : output_df[i].source = str(input_df[i].source)

(***************************************************************************)
(* C5.  A property lookup returns the coefficient and key of the first     *)
(* table entry, in declared order, whose key occurs in the lowercased,     *)
(* trimmed text, and None when no key occurs; changing the case of the     *)
(* text's letters and putting whitespace around it does not change the     *)
(* result.                                                                 *)
(***************************************************************************)
is_first_hit(table, coefficient, text, value, fuel) ==
    IF hits(table, text) = {} THEN value = None /\ fuel = None
    ELSE /\ value = Num(table[first_of(hits(table, text))][coefficient][1],
                        table[first_of(hits(table, text))][coefficient][2])
         /\ fuel = Str(table[first_of(hits(table, text))].fuel)

\* the text with the case of every letter swapped and whitespace put around it
swap_case(c) == IF c \in 65..90 THEN c + 32 ELSE IF c \in 97..122 THEN c - 32 ELSE c

recased_and_padded(s) == <<32, 9>> \o [i \in 1..Len(s) |-> swap_case(s[i])] \o <<10, 32>>

C5_LookupFirstDeclaredKey ==
    Matched =>
        /\ (locals.input_unit = liter /\ locals.emission_unit = kg)
              => is_first_hit(DENSITY_MAP, "density", locals.input_source,
                              locals.density, locals.fuel)
        /\ (locals.input_unit # locals.emission_unit
              /\ {locals.input_unit, locals.emission_unit} = {kwh, kg})
              => is_first_hit(HEATING_VALUE_MAP, "hv", locals.input_source,
                              locals.hv, locals.fuel)
        /\ get_density(recased_and_padded(locals.input_source)) = get_density(locals.input_source)
        /\ get_heating_value(recased_and_padded(locals.input_source))
              = get_heating_value(locals.input_source)

\* 'biodiesel fuel' holds 'diesel fuel' (declared first) and 'biodiesel': 'diesel fuel' wins
C5_Witness ==
    /\ Matched
    /\ locals.input_unit = kg /\ locals.emission_unit = kwh
    /\ Cardinality(hits(HEATING_VALUE_MAP, locals.input_source)) > 1
    /\ locals.fuel = Str(<<100, 105, 101, 115, 101, 108, 32, 102, 117, 101, 108>>)  \* 'diesel fuel'
    /\ locals.hv = Num(118, 10)

(***************************************************************************)
(* C6.  After the unit conversion of a record, either a conversion         *)
(* succeeded and norm_unit is the matched reference row's unit, or none    *)
(* did and norm_quantity and norm_unit are the record's quantity and       *)
(* (trimmed, lowercased) unit.                                             *)
(***************************************************************************)
conversion_succeeded == locals.note # <<>> /\ locals.note[1].kind = "Converted"

C6_NormalizedUnitAfterConversion ==
    Matched =>
        \/ /\ conversion_succeeded
           /\ locals.norm_unit = norm_text(str(db_df[locals.match_idx].unit))
        \/ /\ ~conversion_succeeded
           /\ locals.norm_quantity = input_df[LastRow].quantity
           /\ locals.norm_unit = norm_text(str(input_df[LastRow].unit))

C6_Witness ==
    /\ Matched
    /\ conversion_succeeded
    /\ locals.input_unit = kwh
    /\ locals.norm_unit = kg

(***************************************************************************)
(* C7.  The match of a record is a stable argmax of the token-sort score   *)
(* over the product names: the index is in range, its score is in          *)
(* [0, 100] and is the largest of all candidates' scores, no earlier       *)
(* candidate reaches it, and it is 100 when the query is among the names.  *)
(***************************************************************************)
score_of(i) == token_sort_ratio(locals.input_source, str(db_df[i].product))

C7_BestMatchStableArgmax ==
    Matched =>
        /\ locals.match_idx \in 1..Len(db_df)
        /\ locals.score = score_of(locals.match_idx)
        /\ Leq(Num(0, 1), locals.score) /\ Leq(locals.score, Num(100, 1))
        /\ \A i \in 1..Len(db_df) : Leq(score_of(i), locals.score)
        /\ \A i \in 1..(locals.match_idx - 1) : Less(score_of(i), locals.score)
        /\ (\E i \in 1..Len(db_df) : str(db_df[i].product) = locals.input_source)
              => locals.score = Num(100, 1)

\* two names tie below 100 and the earlier one is kept
C7_Witness ==
    /\ Matched
    /\ Len(db_df) >= 2
    /\ locals.match_idx = 1
    /\ score_of(2) = locals.score
    /\ Less(locals.score, Num(100, 1))
    /\ db_df[1].product # db_df[2].product

(***************************************************************************)
(* C8.  Units are compared trimmed and case-insensitively, and a record    *)
(* whose unit equals the matched row's unit under that comparison passes   *)
(* through: no raise, norm_quantity is the input quantity and the          *)
(* converter leaves no note, whatever the unit, quantity and source are.   *)
(***************************************************************************)
C8_EqualUnitsPassThrough ==
    (Matched /\ norm_text(str(input_df[LastRow].unit))
                   = norm_text(str(db_df[locals.match_idx].unit)))
    => /\ pc # "raised"
       /\ locals.norm_quantity = input_df[LastRow].quantity
       /\ locals.norm_unit = norm_text(str(input_df[LastRow].unit))
       /\ \A k \in 1..Len(locals.note) : locals.note[k].kind = "Calculation error"
       /\ Len(locals.note) <= 1

\* the units differ as written, and the source names a fuel of both tables
C8_Witness ==
    /\ Matched
    /\ input_df[LastRow].unit # db_df[locals.match_idx].unit
    /\ norm_text(str(input_df[LastRow].unit)) = norm_text(str(db_df[locals.match_idx].unit))
    /\ hits(DENSITY_MAP, locals.input_source) # {}
    /\ locals.note = <<>>
    /\ IsNum(locals.total_emission)

(***************************************************************************)
(* C9.  For a record with a numeric quantity q whose source resolves to a  *)
(* coefficient, norm_quantity is q * density for liter -> kg, q / heating  *)
(* value for kwh -> kg and q * heating value for kg -> kwh, with the       *)
(* coefficient looked up from the record's source; every other unequal     *)
(* pair leaves q as it is; total_co2_emission is norm_quantity times the   *)
(* matched row's emission factor.                                          *)
(***************************************************************************)
expected_quantity(q, u, eu, text) ==
    IF u = liter /\ eu = kg /\ hits(DENSITY_MAP, text) # {}
    THEN Mul(float(q), get_density(text).value)
    ELSE IF u = kwh /\ eu = kg /\ hits(HEATING_VALUE_MAP, text) # {}
    THEN Div(float(q), get_heating_value(text).value)
    ELSE IF u = kg /\ eu = kwh /\ hits(HEATING_VALUE_MAP, text) # {}
    THEN Mul(float(q), get_heating_value(text).value)
    ELSE q

C9_ConversionArithmetic ==
    (Matched /\ pc # "raised" /\ ~float_raises(input_df[LastRow].quantity))
    => /\ locals.norm_quantity =
             expected_quantity(input_df[LastRow].quantity,
                               norm_text(str(input_df[LastRow].unit)),
                               norm_text(str(db_df[locals.match_idx].unit)),
                               str(input_df[LastRow].source))
       /\ ~float_raises(db_df[locals.match_idx].emission_factor)
             => /\ locals.total_emission =
                      Mul(float(locals.norm_quantity),
                          float(db_df[locals.match_idx].emission_factor))
                /\ output_rows[LastRow].total_co2_emission = locals.total_emission

\* kwh -> kg by the heating value of the source's fuel (coal), not of the matched name
C9_Witness ==
    /\ Matched /\ pc # "raised"
    /\ locals.input_unit = kwh /\ locals.emission_unit = kg
    /\ locals.fuel = Str(<<99, 111, 97, 108>>)  \* 'coal'
    /\ hits(HEATING_VALUE_MAP, str(locals.matched_product)) # {}
    /\ get_heating_value(str(locals.matched_product)).value # locals.hv
    /\ locals.norm_quantity = Num(50, 7)
    /\ locals.total_emission = Num(50 * 268, 700)

(***************************************************************************)
(* C10.  A record's result depends on the record and the reference table   *)
(* only: the row appended for a record, wherever it stands in the frame    *)
(* and whatever records came before it, is the row the loop body appends   *)
(* for that record when nothing was processed before it; and no step       *)
(* changes the reference table or the input frame.                         *)
(***************************************************************************)
appended_row_is_the_record_alone ==
    Len(output_rows') > Len(output_rows)
    => output_rows'[Len(output_rows')]
          = output_row(body(input_df[idx], db_df, unbound_locals).l)

====
